---- MODULE Spec2Model ----
(***************************************************************************)
(* A model of taxonomylite.py: the taxonomy table of the SQLite store, the *)
(* bulk build of Taxonomy.from_source (row insertion, _construct_lineage,  *)
(* the UPDATE of the lineage column) and the read-only queries of the      *)
(* Taxonomy class, which run against the built store.                      *)
(*                                                                         *)
(* Strings are sequences of one-character strings, so that the LIKE        *)
(* '%...%' tests of is_parent and children are real substring searches     *)
(* over the decimal digits of the ids and the separator.                   *)
(***************************************************************************)
EXTENDS Integers, Sequences, FiniteSets, TLC

VARIABLES
    source,       \* the input records: id -> parent_id
    pending,      \* ids of the records executemany has not inserted yet
    forward,      \* history: some record was inserted before its parent's
    table,        \* the taxonomy table: taxa_id -> [parent_taxa, lineage]
    phase,        \* "insert", "construct", "done"
    pc,           \* _construct_lineage: "idle" between rows, "walk" in lineage()
    todo,         \* _construct_lineage: rows the SELECT has not returned yet
    tid,          \* lineage(): the loop variable
    path,         \* lineage(): the list built so far
    tax2lineage,  \* _construct_lineage: the dict of encoded lineages
    last          \* the query in progress on the built store and its result

vars == <<source, pending, forward, table, phase, pc, todo, tid, path, tax2lineage, last>>

(* ------------------------------ bounds -------------------------------- *)

\* How many ids of IdPool the input records and the query arguments use.
MaxIds == 4

\* The largest degree relatives() is called with.
MaxDegree == 2

\* Ids chosen so that the digits of one are a prefix (1 of 12), a suffix
\* (2 of 12, 1 of 121) or an infix (2 of 121) of another.
IdPool == <<1, 2, 12, 121, 21, 11>>

Ids == {IdPool[i] : i \in 1..MaxIds}

\* A walk over distinct ids plus one unresolved parent is at most this long;
\* only a walk that runs in a cycle gets past it.
MaxWalk == Cardinality(Ids) + 1

(* --------------------------- values, strings -------------------------- *)

\* Python's None / SQL NULL.  No taxon id is 0.
None == 0

\* The hardcoded root id of Taxonomy.lineage.
ROOT == 1

SEP_TOKEN == <<"z", "z", "z">>

\* Taxonomy.__init__: the row read for taxa_id = 1 is a tuple, re.split on it
\* raises, and the bare except sets 'zzz'; a store without the table raises too.
sep == SEP_TOKEN

DigitChar == <<"0", "1", "2", "3", "4", "5", "6", "7", "8", "9">>

\* str(n) / "{}".format(n) of a non-negative int.
RECURSIVE str(_)
str(n) == IF n < 10 THEN <<DigitChar[n + 1]>>
          ELSE str(n \div 10) \o <<DigitChar[(n % 10) + 1]>>

\* sep.join(items) for a sequence of strings.
RECURSIVE join(_, _)
join(s, items) ==
    IF items = <<>> THEN <<>>
    ELSE IF Len(items) = 1 THEN items[1]
    ELSE items[1] \o s \o join(s, Tail(items))

\* path[::-1]
Reverse(s) == [i \in 1..Len(s) |-> s[Len(s) + 1 - i]]

\* SQL: text LIKE '%' || pat || '%' for a pattern of letters and digits.
Like(text, pat) ==
    \E i \in 1..(Len(text) - Len(pat) + 1) : SubSeq(text, i, i + Len(pat) - 1) = pat

\* The rows of a SELECT without ORDER BY.  The parent_taxa = ? query reads
\* the rows of one parent in rowid (= taxa_id) order, which is the order
\* relatives() concatenates them in; the LIKE query may be answered from the
\* lineage index in another order, and its result is only read as a set.
RECURSIVE RowOrder(_)
RowOrder(S) ==
    IF S = {} THEN <<>>
    ELSE LET m == CHOOSE x \in S : \A y \in S : x <= y
         IN  <<m>> \o RowOrder(S \ {m})

(* ------------------------- the Taxonomy queries ----------------------- *)

\* Taxonomy.parent: the stored parent_taxa of tid, None when there is no row
\* (a NULL argument matches no row either).
parent(t) == IF t \in DOMAIN table THEN table[t].parent_taxa ELSE None

\* Variant: the loop does not test for the root id.
lineage_next_no_root(t) == parent(t)

\* Variant: an unresolved parent ends the walk before it is appended.
lineage_next_resolved(t) ==
    IF t = ROOT \/ parent(t) \notin DOMAIN table THEN None ELSE parent(t)

\* One turn of the while loop of Taxonomy.lineage: None when the loop ends
\* (tid is the root, or the parent lookup returned None), else the next tid.
lineage_next(t) == IF t = ROOT THEN None ELSE parent(t)

RECURSIVE lineage_loop(_, _)
lineage_loop(t, p) ==
    LET n == lineage_next(t)
    IN  IF n = None THEN p ELSE lineage_loop(n, Append(p, n))

\* Taxonomy.lineage
lineage(t) == Reverse(lineage_loop(t, <<t>>))

\* Variant: the closing separator is left out.
encode_open(lin) == sep \o join(sep, [i \in 1..Len(lin) |-> str(lin[i])])

\* _construct_lineage: self.sep + self.sep.join(map(str, lineage)) + self.sep
encode(lin) == sep \o join(sep, [i \in 1..Len(lin) |-> str(lin[i])]) \o sep

\* Variant: the id is not wrapped in separators.
parent_pattern_bare(parent_tid) == str(parent_tid)

\* is_parent: "%{}{}{}%".format(self.sep, parent_tid, self.sep), without the %
parent_pattern(parent_tid) == sep \o str(parent_tid) \o sep

\* Taxonomy.is_parent
is_parent(child_tid, parent_tid) ==
    \E r \in DOMAIN table :
        r = child_tid /\ Like(table[r].lineage, parent_pattern(parent_tid))

\* Taxonomy.is_child
is_child(child_tid, parent_tid) == is_parent(parent_tid, parent_tid)

\* Variant: the id is not wrapped in separators.
child_pattern_bare(t) == str(t)

\* children(deep=True): "%{}{}{}%".format(self.sep, tid, self.sep), without the %
child_pattern(t) == sep \o str(t) \o sep

\* Taxonomy.children; parent_taxa = NULL selects no row.
children(t, deep) ==
    IF deep
    THEN RowOrder({r \in DOMAIN table :
                      Like(table[r].lineage, child_pattern(t)) /\ r # t})
    ELSE RowOrder({r \in DOMAIN table :
                      t # None /\ table[r].parent_taxa = t})

Elems(s) == {s[i] : i \in 1..Len(s)}

\* list.remove(x): drops the first occurrence; the caller checks x is there.
ListRemove(s, x) ==
    LET k == CHOOSE i \in 1..Len(s) : s[i] = x /\ \A j \in 1..(i - 1) : s[j] # x
    IN  SubSeq(s, 1, k - 1) \o SubSeq(s, k + 1, Len(s))

\* Taxonomy.siblings; list.remove raises ValueError when tid is not listed.
siblings(t) ==
    LET sibs == children(parent(t), FALSE)
    IN  IF t \in Elems(sibs)
        THEN [raised |-> FALSE, value |-> ListRemove(sibs, t)]
        ELSE [raised |-> TRUE, value |-> <<>>]

\* relatives: root = self.parent(root), degree times
RECURSIVE walk_up(_, _)
walk_up(root, i) == IF i = 0 THEN root ELSE walk_up(parent(root), i - 1)

\* relatives: next_layer.extend(self.children(entry)) for every entry
RECURSIVE next_layer(_)
next_layer(current_layer) ==
    IF current_layer = <<>> THEN <<>>
    ELSE children(Head(current_layer), FALSE) \o next_layer(Tail(current_layer))

\* relatives: the for loop over range(n), n turns left
RECURSIVE relatives_loop(_, _, _)
relatives_loop(n, current_layer, rel) ==
    IF n = 0 THEN rel
    ELSE relatives_loop(n - 1, next_layer(current_layer), rel \o current_layer)

\* Variant: the descent runs degree levels, not 2 * degree.
relatives_short(t, degree) ==
    relatives_loop(degree, <<walk_up(parent(t), degree)>>, <<>>)

\* Taxonomy.relatives
relatives(t, degree) ==
    relatives_loop(degree * 2, <<walk_up(parent(t), degree)>>, <<>>)

\* nearest_common_ancestor: the nested scan, outer index i over a's reversed
\* lineage, inner index j over b's; the first hit in that order is returned,
\* None when the loops fall through.
nca_scan(ar, br) ==
    LET hits == {ij \in (1..Len(ar)) \X (1..Len(br)) : ar[ij[1]] = br[ij[2]]}
    IN  IF hits = {} THEN <<None, None>>
        ELSE LET h == CHOOSE x \in hits :
                        \A y \in hits : x[1] < y[1] \/ (x[1] = y[1] /\ x[2] <= y[2])
             IN  <<(h[1] - 1) + (h[2] - 1), ar[h[1]]>>

\* Variant: the lineages are scanned root first.
nearest_common_ancestor_root_first(a, b) == nca_scan(lineage(a), lineage(b))

\* Taxonomy.nearest_common_ancestor
nearest_common_ancestor(a, b) == nca_scan(Reverse(lineage(a)), Reverse(lineage(b)))

(* ------------------------------ the build ----------------------------- *)

\* Input records: ids are unique (source is a function of the id); a parent
\* is any id of the pool in use, present among the records or not; only the
\* root's parent may be undefined.
Sources ==
    UNION {{f \in [S -> Ids \cup {None}] : \A n \in S : f[n] = None => n = ROOT}
              : S \in SUBSET Ids}

NoQuery == [op |-> "none", args |-> <<>>, ret |-> None]

Init ==
    /\ source \in Sources
    /\ pending = DOMAIN source
    /\ forward = FALSE
    /\ table = <<>>
    /\ phase = "insert"
    /\ pc = "idle"
    /\ todo = {}
    /\ tid = None
    /\ path = <<>>
    /\ tax2lineage = <<>>
    /\ last = NoQuery

\* from_source: one row of executemany('INSERT INTO taxonomy VALUES (?,?,?,?,"")');
\* the records arrive in any order.
Insert(r) ==
    /\ phase = "insert"
    /\ r \in pending
    /\ pending' = pending \ {r}
    /\ forward' = (forward \/ source[r] \in pending \ {r})
    /\ table' = [x \in DOMAIN table \cup {r} |->
                    IF x = r THEN [parent_taxa |-> source[r], lineage |-> <<>>]
                    ELSE table[x]]
    /\ UNCHANGED <<source, phase, pc, todo, tid, path, tax2lineage, last>>

\* from_source: executemany has consumed the records; _construct_lineage
\* opens its SELECT * over the table.
StartLineage ==
    /\ phase = "insert"
    /\ pending = {}
    /\ phase' = "construct"
    /\ todo' = DOMAIN table
    /\ UNCHANGED <<source, pending, forward, table, pc, tid, path, tax2lineage, last>>

\* _construct_lineage: the next row of the SELECT; lineage(row[0]) starts.
NextRow ==
    /\ phase = "construct"
    /\ pc = "idle"
    /\ todo # {}
    /\ LET row == CHOOSE x \in todo : \A y \in todo : x <= y
       IN  /\ tid' = row
           /\ path' = <<row>>
    /\ pc' = "walk"
    /\ UNCHANGED <<source, pending, forward, table, phase, todo, tax2lineage, last>>

\* lineage: one turn of the while loop that appends a parent.
WalkStep ==
    /\ pc = "walk"
    /\ lineage_next(tid) # None
    /\ Len(path) <= MaxWalk
    /\ tid' = lineage_next(tid)
    /\ path' = Append(path, lineage_next(tid))
    /\ UNCHANGED <<source, pending, forward, table, phase, pc, todo, tax2lineage, last>>

\* lineage: the loop ends and path[::-1] is returned; _construct_lineage
\* files the encoded string under the row's id.
WalkDone ==
    /\ pc = "walk"
    /\ lineage_next(tid) = None
    /\ LET row == path[1]
       IN  /\ tax2lineage' = [x \in DOMAIN tax2lineage \cup {row} |->
                                 IF x = row THEN encode(Reverse(path))
                                 ELSE tax2lineage[x]]
           /\ todo' = todo \ {row}
    /\ pc' = "idle"
    /\ tid' = None
    /\ path' = <<>>
    /\ UNCHANGED <<source, pending, forward, table, phase, last>>

\* _construct_lineage: executemany("UPDATE taxonomy SET lineage = ?2 WHERE
\* taxa_id = ?1"); from_source: _init_index, commit, return store.
Update ==
    /\ phase = "construct"
    /\ pc = "idle"
    /\ todo = {}
    /\ table' = [x \in DOMAIN table |->
                    IF x \in DOMAIN tax2lineage
                    THEN [table[x] EXCEPT !.lineage = tax2lineage[x]]
                    ELSE table[x]]
    /\ phase' = "done"
    /\ UNCHANGED <<source, pending, forward, pc, todo, tid, path, tax2lineage>>
    /\ last' = NoQuery

\* A caller of the returned store runs one query; the store is
\* single-threaded, so the next query starts after this one has returned.
Answer(op, args, ret) ==
    /\ phase = "done"
    /\ last = NoQuery
    /\ last' = [op |-> op, args |-> args, ret |-> ret]
    /\ UNCHANGED <<source, pending, forward, table, phase, pc, todo, tid, path, tax2lineage>>

\* The caller takes the result.
Return ==
    /\ phase = "done"
    /\ last # NoQuery
    /\ last' = NoQuery
    /\ UNCHANGED <<source, pending, forward, table, phase, pc, todo, tid, path, tax2lineage>>

QueryParent == \E t \in Ids : Answer("parent", <<t>>, parent(t))

QueryLineage == \E t \in Ids : Answer("lineage", <<t>>, lineage(t))

QueryIsParent ==
    \E c \in Ids, p \in Ids : Answer("is_parent", <<c, p>>, is_parent(c, p))

QueryIsChild ==
    \E c \in Ids, p \in Ids : Answer("is_child", <<c, p>>, is_child(c, p))

QueryChildren ==
    \E t \in Ids, deep \in BOOLEAN : Answer("children", <<t, deep>>, children(t, deep))

QuerySiblings == \E t \in Ids : Answer("siblings", <<t>>, siblings(t))

QueryRelatives ==
    \E t \in Ids, degree \in 1..MaxDegree :
        Answer("relatives", <<t, degree>>, relatives(t, degree))

QueryNearestCommonAncestor ==
    \E a \in Ids, b \in Ids :
        Answer("nearest_common_ancestor", <<a, b>>, nearest_common_ancestor(a, b))

Next ==
    \/ \E r \in Ids : Insert(r)
    \/ StartLineage
    \/ NextRow
    \/ WalkStep
    \/ WalkDone
    \/ Update
    \/ QueryParent
    \/ QueryLineage
    \/ QueryIsParent
    \/ QueryIsChild
    \/ QueryChildren
    \/ QuerySiblings
    \/ QueryRelatives
    \/ QueryNearestCommonAncestor
    \/ Return

Spec == Init /\ [][Next]_vars

(* ------------------- the tree the input records describe -------------- *)

\* The ids reached from the ids of S by parent links of the records, S
\* included; a chain ends at the root id, at an undefined parent and at an
\* id without a record.
RECURSIVE Chain(_, _)
Chain(src, S) ==
    LET up == {src[x] : x \in {y \in S \cap DOMAIN src : y # ROOT /\ src[y] # None}}
    IN  IF up \subseteq S THEN S ELSE Chain(src, S \cup up)

\* The ids strictly above n.
Above(src, n) ==
    IF n \in DOMAIN src /\ n # ROOT /\ src[n] # None THEN Chain(src, {src[n]}) ELSE {}

\* No chain of parent links comes back to an id it has left.
Acyclic(src) == \A n \in DOMAIN src : n \notin Above(src, n)

\* The build precondition of the specification: every parent_id except the
\* root's refers to a record (ids are unique by the shape of src).
ParentsPresent(src) == \A n \in DOMAIN src \ {ROOT} : src[n] \in DOMAIN src

\* The root has a record and every record's chain leads to it.
Rooted(src) ==
    /\ ROOT \in DOMAIN src
    /\ ParentsPresent(src)
    /\ \A n \in DOMAIN src : ROOT \in Chain(src, {n})

\* A single-rooted tree: the root's parent is its own id or undefined.
SingleRooted(src) == Rooted(src) /\ src[ROOT] \in {ROOT, None}

\* The parent-link path from the root down to n, in a rooted input.
RECURSIVE PathTo(_, _)
PathTo(src, n) == IF n = ROOT THEN <<ROOT>> ELSE Append(PathTo(src, src[n]), n)

Depth(src, n) == Len(PathTo(src, n)) - 1

\* SEP + id_1 + SEP + ... + id_k + SEP
RECURSIVE Wrapped(_)
Wrapped(ids) == IF ids = <<>> THEN SEP_TOKEN
                ELSE SEP_TOKEN \o str(Head(ids)) \o Wrapped(Tail(ids))

NoDup(s) == \A i, j \in 1..Len(s) : s[i] = s[j] => i = j

Built == phase = "done"

Asked(op) == Built /\ last.op = op

(* -------------------------------- claims ------------------------------ *)

\* C1: on a store built from a single-rooted tree, is_parent(child_tid = N,
\* parent_tid = A) is true exactly when N has a row and A is an element of
\* lineage(N); so it is false for an id whose digits are only part of a path
\* element, true for A = N, and false for an unknown N.
C1_IsAncestorIffInLineage ==
    (Asked("is_parent") /\ SingleRooted(source)) =>
        LET N == last.args[1]
            A == last.args[2]
        IN  last.ret = (N \in DOMAIN table /\ A \in Elems(lineage(N)))

C1_Witness ==
    /\ Asked("is_parent") /\ SingleRooted(source)
    /\ last.args = <<121, 2>>
    /\ {2, 12, 121} \subseteq DOMAIN table
    /\ source[121] = 12 /\ source[12] = ROOT
    /\ last.ret = FALSE

\* The closure of repeatedly applying children(x, deep=False) from S.
RECURSIVE ShallowClosure(_)
ShallowClosure(S) ==
    LET more == UNION {Elems(children(x, FALSE)) : x \in S}
    IN  IF more \subseteq S THEN S ELSE ShallowClosure(S \cup more)

\* C2: on a store built from a single-rooted tree, children(tid, deep=True)
\* as a set is the closure of children(x, deep=False) from tid, without tid.
C2_DeepIsShallowClosure ==
    (Asked("children") /\ last.args[2] /\ SingleRooted(source)) =>
        Elems(last.ret) = ShallowClosure({last.args[1]}) \ {last.args[1]}

C2_Witness ==
    /\ Asked("children") /\ last.args = <<ROOT, TRUE>>
    /\ SingleRooted(source) /\ source[ROOT] = ROOT
    /\ \E n \in DOMAIN source : Depth(source, n) = 2 /\ n \in Elems(last.ret)

\* C3: after the build of a rooted input, whatever the order the records
\* were inserted in, every row's stored lineage is SEP + id_1 + SEP + ... +
\* id_k + SEP for the parent-link path id_1..id_k from the root to the row's
\* id, which is id_k, and SEP + A + SEP occurs in it for every ancestor A.
C3_StoredLineageIsRootPath ==
    (Built /\ Rooted(source)) =>
        /\ DOMAIN table = DOMAIN source
        /\ \A N \in DOMAIN table :
              LET p == PathTo(source, N)
              IN  /\ table[N].lineage = Wrapped(p)
                  /\ p[Len(p)] = N
                  /\ \A A \in Above(source, N) \cup {N} :
                        Like(table[N].lineage, SEP_TOKEN \o str(A) \o SEP_TOKEN)

C3_Witness ==
    /\ Built /\ Rooted(source)
    /\ forward
    /\ \E N \in DOMAIN table : Depth(source, N) = 2 /\ source[N] > N

\* C4: for every tid with a row, siblings(tid) returns, without tid in it,
\* children(parent(tid), deep=False) with tid removed.
C4_SiblingsOriginal ==
    (Asked("siblings") /\ last.args[1] \in DOMAIN table) =>
        /\ ~last.ret.raised
        /\ last.args[1] \notin Elems(last.ret.value)
        /\ Elems(last.ret.value) =
              Elems(children(parent(last.args[1]), FALSE)) \ {last.args[1]}

\* C5: siblings and relatives of the root, its stored parent its own id or
\* undefined, return a result and do not raise.
C5_RootQueriesOriginal ==
    /\ (Asked("siblings") /\ last.args[1] = ROOT /\ ROOT \in DOMAIN table
            /\ table[ROOT].parent_taxa \in {ROOT, None})
          => ~last.ret.raised
    /\ (Asked("relatives") /\ last.args[1] = ROOT /\ ROOT \in DOMAIN table
            /\ table[ROOT].parent_taxa \in {ROOT, None})
          => last.ret \in Seq(Ids \cup {None})

\* C6: is_child(child_tid, parent_tid) is true exactly when parent_tid occurs
\* in the lineage of child_tid, and agrees with is_parent on every input.
C6_IsChildOriginal ==
    Asked("is_child") =>
        LET c == last.args[1]
            p == last.args[2]
        IN  /\ last.ret = is_parent(c, p)
            /\ last.ret = (c \in DOMAIN table /\ p \in Elems(lineage(c)))

\* The records whose parent_id names an id that has no record; the root's
\* own parent and a missing root record are left aside.
Dangling(src) ==
    {n \in DOMAIN src \ {ROOT} : src[n] # None /\ src[n] # ROOT /\ src[n] \notin DOMAIN src}

\* C7 as stated: a build whose input has a record with a missing parent does
\* not complete, and no lineage is stored for that record.
C7_MissingParentOriginal ==
    \A n \in Dangling(source) :
        /\ ~Built
        /\ n \in DOMAIN table => table[n].lineage = <<>>

\* C7 amended: a missing parent is no error; the walk of the record stops at
\* the missing id, the lineage filed for the record is SEP + parent_id + SEP +
\* id + SEP, and a build that completes stores that string in the record's row.
C7_MissingParentStored ==
    \A n \in Dangling(source) :
        LET expected == SEP_TOKEN \o str(source[n]) \o SEP_TOKEN \o str(n) \o SEP_TOKEN
        IN  /\ n \in DOMAIN tax2lineage => tax2lineage[n] = expected
            /\ Built => table[n].lineage = expected

C7_Witness ==
    /\ Built
    /\ ROOT \in DOMAIN table
    /\ \E n \in Dangling(source) : n \in DOMAIN table /\ table[n].lineage # <<>>

\* The steps of the build, without the queries on the built store.
BuildNext ==
    \/ \E r \in Ids : Insert(r)
    \/ StartLineage
    \/ NextRow
    \/ WalkStep
    \/ WalkDone
    \/ Update

\* lineage() has not come back to an id already on its path.  The walk is
\* a function of the current id over a fixed table, so it ends exactly when
\* this stays true; the path is then no longer than the rows plus one
\* unresolved parent.
WalkEnds ==
    pc = "walk" => (NoDup(path) /\ Len(path) <= Cardinality(DOMAIN table) + 1)

\* C8 as stated: with unique ids and every parent_id except the root's
\* naming a record, every lineage walk of the build ends.
C8_TerminatesOriginal == ParentsPresent(source) => WalkEnds

\* C8 amended: with unique ids and parent links that never lead back to an
\* id already left, every lineage walk ends, at id 1 or at the first
\* unresolved parent, and the build goes on until it has completed.
C8_TerminatesWhenAcyclic ==
    Acyclic(source) => (WalkEnds /\ (Built \/ ENABLED BuildNext))

C8_Witness ==
    /\ Built /\ Acyclic(source) /\ SingleRooted(source)
    /\ source[ROOT] = ROOT
    /\ \E n \in DOMAIN table : Depth(source, n) = 3
    /\ \E n \in DOMAIN table : Len(table[n].lineage) > 0

\* C9: on a store built from a single-rooted tree, nearest_common_ancestor(a,
\* b) for rows a and b is (d, c): c the deepest id in both lineages, d the
\* number of edges between a and b through c; swapping a and b changes nothing.
C9_NearestCommonAncestorIsLowest ==
    (Asked("nearest_common_ancestor") /\ SingleRooted(source)
        /\ last.args[1] \in DOMAIN table /\ last.args[2] \in DOMAIN table) =>
        LET a == last.args[1]
            b == last.args[2]
            d == last.ret[1]
            c == last.ret[2]
            common == Elems(lineage(a)) \cap Elems(lineage(b))
        IN  /\ c \in common
            /\ \A x \in common : Depth(source, x) <= Depth(source, c)
            /\ d = (Depth(source, a) - Depth(source, c))
                     + (Depth(source, b) - Depth(source, c))
            /\ last.ret = nearest_common_ancestor(b, a)

C9_Witness ==
    /\ Asked("nearest_common_ancestor") /\ SingleRooted(source)
    /\ last.args = <<12, 121>>
    /\ {2, 12, 121} \subseteq DOMAIN table
    /\ source[12] = 2 /\ source[121] = 2 /\ source[2] = ROOT
    /\ last.ret = <<2, 2>>

\* The k-th breadth-first level below R: level 0 is [R], each further level
\* the shallow children of the entries of the one before, in order.
RECURSIVE Level(_, _)
Level(R, k) ==
    IF k = 0 THEN <<R>>
    ELSE LET prev == Level(R, k - 1)
             RECURSIVE Flat(_)
             Flat(i) == IF i > Len(prev) THEN <<>>
                        ELSE children(prev[i], FALSE) \o Flat(i + 1)
         IN  Flat(1)

\* Levels 0 .. n-1 below R, one after the other.
RECURSIVE Levels(_, _)
Levels(R, n) == IF n = 0 THEN <<>> ELSE Levels(R, n - 1) \o Level(R, n - 1)

\* The id reached from t by k parent lookups.
RECURSIVE Up(_, _)
Up(t, k) == IF k = 0 THEN t ELSE parent(Up(t, k - 1))

Count(s, x) == Cardinality({i \in 1..Len(s) : s[i] = x})

RECURSIVE Sum(_, _)
Sum(f, n) == IF n = 0 THEN 0 ELSE f[n] + Sum(f, n - 1)

\* C10: relatives(tid, degree) is the concatenation, in level order and
\* without deduplication, of the 2 * degree breadth-first levels below R, the
\* id degree parent lookups above parent(tid); an id is in the result as often
\* as it is in those levels together.
C10_RelativesAreLevels ==
    Asked("relatives") =>
        LET t == last.args[1]
            degree == last.args[2]
            R == Up(t, degree + 1)
        IN  /\ last.ret = Levels(R, 2 * degree)
            /\ \A x \in Ids \cup {None} :
                  Count(last.ret, x) =
                      Sum([k \in 1..(2 * degree) |-> Count(Level(R, k - 1), x)], 2 * degree)

\* relatives() of a self-parented root lists the root once per level.
C10_Witness ==
    /\ Asked("relatives") /\ SingleRooted(source)
    /\ last.args[2] = 2 /\ source[ROOT] = ROOT
    /\ last.args[1] \in DOMAIN table
    /\ Depth(source, last.args[1]) = 3
    /\ Count(last.ret, ROOT) = 4

====
